---- MODULE Spec2Model ----
(***************************************************************************)
(* Model of the acquisition-and-inference pipeline of the parking          *)
(* dashboard: dashboard/yolo_service.py (model provisioning, capture       *)
(* fallback, statistics reduction) and dashboard/views.py (cameras_view    *)
(* and the result cache).                                                  *)
(***************************************************************************)
EXTENDS Integers, Sequences, FiniteSets, TLC

(***************************************************************************)
(* Bounds of the model.                                                    *)
(***************************************************************************)
\* Longest list of detections handed to _extract_occupancy_stats.
MaxDet == 8

\* Number of chunks response.iter_content yields for the whole artifact.
NChunks == 2

\* Number of get_model calls made in one run of the process.
MaxCalls == 3

\* Number of requests cameras_view serves in one run of the process.
MaxRequests == 2

(***************************************************************************)
(* State of the statistics reducer, _extract_occupancy_stats.              *)
(*   spc     position: "idle", "loop" (inside `for cid in class_ids`),     *)
(*           "done" (returned)                                             *)
(*   sLen    len(class_ids) of the current call                            *)
(*   sIdx    number of class ids the loop has consumed                     *)
(*   sLast   the class id consumed last (-1 before the first)              *)
(*   counts  the local dict counts                                         *)
(*   stats   the returned dict ("none" until the call returns)             *)
(***************************************************************************)
VARIABLES spc, sLen, sIdx, sLast, counts, stats

statsVars == <<spc, sLen, sIdx, sLast, counts, stats>>

(***************************************************************************)
(* The request cycles of the process (threads of the server).  Each        *)
(* specification activates the cycles it needs.                            *)
(***************************************************************************)
Procs == {1, 2}

VARIABLE active

(***************************************************************************)
(* State of capture_frame and its adapters.                                *)
(*   installed  the executables shutil.which finds                         *)
(*   openable   the capture devices cv2.VideoCapture can open              *)
(*   tmpFile    the two fixed-name temporary files, shared by all calls:   *)
(*              "rpicam" is rpicam_capture.jpg, "fswebcam" is              *)
(*              fswebcam_capture.jpg                                       *)
(*   held       per cycle, the capture devices it holds open               *)
(*   cpc        per cycle, the position inside capture_frame               *)
(*   cfErrors   per cycle, the list errors of capture_frame                *)
(*   adErrors   per cycle, the list errors of the running adapter          *)
(*   devIdx     per cycle, the position in the adapter's device loop       *)
(*   proc       per cycle, the CompletedProcess of subprocess.run          *)
(*   data       per cycle, the bytes read from the temporary file          *)
(*   pending    per cycle, how the try statement is being left while its   *)
(*              finally clause runs                                        *)
(*   cfRet      per cycle, what capture_frame returned or raised           *)
(*   attempts   per cycle, the capture attempts of the call in the order   *)
(*              made, each with its outcome (history)                      *)
(***************************************************************************)
VARIABLES installed, openable, tmpFile, held, cpc, cfErrors, adErrors, devIdx, proc,
          data, pending, cfRet, attempts

capVars == <<installed, openable, tmpFile, held, cpc, cfErrors, adErrors, devIdx, proc,
             data, pending, cfRet, attempts>>

(***************************************************************************)
(* State of the model provisioner, get_model and _download_model.          *)
(*   model       the global _model: 0 is None, else the handle's number    *)
(*   dirExists   MODEL_DIR exists                                          *)
(*   file        the file MODEL_PATH names: whether it exists, the chunks  *)
(*               of the artifact it holds, and whether a download of it    *)
(*               has finished with every chunk in place                    *)
(*   nFetch      number of requests.get calls made (history)               *)
(*   nLoad       number of YOLO(...) constructions made; handles are       *)
(*               numbered in the order made                                *)
(*   nWritten    number of downloads that ran to their end (history)       *)
(*   nCalls      number of get_model calls made (history)                  *)
(*   firstRet    the handle the first successful get_model returned, 0     *)
(*               while none has (history)                                  *)
(*   mpc         per cycle, the position inside get_model                  *)
(*   downloaded  per cycle, the local downloaded, in chunks                *)
(*   total_size  per cycle, the local total_size, in chunks                *)
(*   fdLive      per cycle, whether its open file object still refers to   *)
(*               the file MODEL_PATH names (not to an unlinked one)        *)
(*   loaded      per cycle, the handle YOLO(...) gave it, before the        *)
(*               assignment to _model                                      *)
(*   mRet        per cycle, what get_model returned or raised              *)
(*   callIO      per cycle, the number of requests (net) and of storage    *)
(*               operations (disk) of the current call (history)           *)
(*   lateCall    per cycle, whether the current call began after a         *)
(*               get_model call had returned successfully (history)        *)
(*   loadSaw     per cycle, the state of the file when YOLO(...) read it   *)
(*               (history)                                                 *)
(***************************************************************************)
VARIABLES model, dirExists, file, nFetch, nLoad, nWritten, nCalls, firstRet, mpc,
          downloaded, total_size, fdLive, loaded, mRet, callIO, lateCall,
          loadSaw

provVars == <<model, dirExists, file, nFetch, nLoad, nWritten, nCalls, firstRet, mpc,
              downloaded, total_size, fdLive, loaded, mRet, callIO, lateCall,
              loadSaw>>

(***************************************************************************)
(* State of cameras_view and run_inference.                                *)
(*   cache         the cache entry "latest_occupancy_stats"                *)
(*   nReq          number of requests served so far; the clock             *)
(*                 timezone.now() reads                                    *)
(*   vpc           per cycle, the position inside cameras_view             *)
(*   vReq          per cycle, the kind of request: "get", "capture" (POST  *)
(*                 with 'capture'), "upload" (POST with an image file),    *)
(*                 "empty_post" (POST with neither)                        *)
(*   camera_ready  per cycle, the local camera_ready                       *)
(*   pIdx          per cycle, the position in the device loop of           *)
(*                 camera_available                                        *)
(*   pReady        per cycle, the local ready of camera_available          *)
(*   vBytes        per cycle, captured_bytes or uploaded_bytes             *)
(*   riStats       per cycle, the local stats of run_inference             *)
(*   vStats        per cycle, the local stats of cameras_view              *)
(*   vAnnot        per cycle, whether run_inference returned the           *)
(*                 annotated image                                         *)
(*   vError        per cycle, the local error                              *)
(*   vSource       per cycle, the local source                             *)
(*   cacheAtStart  per cycle, the cache entry when the request began       *)
(*                 (history)                                               *)
(***************************************************************************)
VARIABLES cache, nReq, vpc, vReq, camera_ready, vBytes, riStats, vStats,
          vAnnot, vError, vSource, cacheAtStart, pIdx, pReady

viewVars == <<cache, nReq, vpc, vReq, camera_ready, vBytes, riStats, vStats,
              vAnnot, vError, vSource, cacheAtStart, pIdx, pReady>>

vars == <<statsVars, active, capVars, provVars, viewVars>>

(***************************************************************************)
(* Labels are strings, modelled as sequences of one-character strings so   *)
(* that str.lower() and the substring test `kw in label` are computed.     *)
(***************************************************************************)
ToLower ==
    ("E" :> "e") @@ ("M" :> "m") @@ ("P" :> "p") @@ ("T" :> "t") @@
    ("Y" :> "y") @@ ("O" :> "o") @@ ("C" :> "c") @@ ("U" :> "u") @@
    ("I" :> "i") @@ ("D" :> "d") @@ ("L" :> "l")

\* str.lower(), one character
LowerChar(c) == IF c \in DOMAIN ToLower THEN ToLower[c] ELSE c

\* str.lower()
StrLower(s) == [i \in 1..Len(s) |-> LowerChar(s[i])]

\* Python's `sub in s` on strings
Contains(sub, s) ==
    \E i \in 0..(Len(s) - Len(sub)) : \A j \in 1..Len(sub) : s[i + j] = sub[j]

KwEmpty == <<"e", "m", "p", "t", "y">>
KwOccup == <<"o", "c", "c", "u", "p">>
KwLot == <<"l", "o", "t">>

\* result.names of the detector: class id -> label.  The ids cover a label
\* for each keyword alone, labels holding several keywords, upper-case
\* labels, and labels holding none.
Names ==
    (0 :> <<"e", "m", "p", "t", "y">>) @@
    (1 :> <<"o", "c", "c", "u", "p", "i", "e", "d">>) @@
    (2 :> <<"l", "o", "t">>) @@
    (3 :> <<"c", "a", "r">>) @@
    (4 :> <<"E", "m", "p", "t", "y", "_", "L", "o", "t">>) @@
    (5 :> <<"O", "C", "C", "U", "P", "I", "E", "D", " ", "l", "o", "t">>) @@
    (6 :> <<"o", "c", "c", "u", "p", "/", "e", "m", "p", "t", "y">>) @@
    (7 :> <<"e", "m", "p", "t">>)

\* names.get(int(cid), ""): an id the detector has no name for yields ""
NamesGet(names, cid) == IF cid \in DOMAIN names THEN names[cid] ELSE <<>>

\* The class ids the inputs are drawn from: every named id and one unnamed.
ClassIds == (DOMAIN Names) \cup {Cardinality(DOMAIN Names)}

ZeroCounts == [occupied |-> 0, empty |-> 0, lots |-> 0]

\* A different chain, with the 'occup' branch tested before 'empty'
Classify_OccupFirst(label) ==
    IF Contains(KwOccup, label) THEN "occupied"
    ELSE IF Contains(KwEmpty, label) THEN "empty"
    ELSE IF Contains(KwLot, label) THEN "lots"
    ELSE "none"

\* The if/elif chain of the loop body on the lower-cased label: the key of
\* counts to increment, "none" when no branch is taken.
Classify(label) ==
    IF Contains(KwEmpty, label) THEN "empty"
    ELSE IF Contains(KwOccup, label) THEN "occupied"
    ELSE IF Contains(KwLot, label) THEN "lots"
    ELSE "none"

\* One iteration of `for cid in class_ids`
CountStep(c, cid) ==
    LET label == StrLower(NamesGet(Names, cid))
        key == Classify(label)
    IN  IF key = "none" THEN c ELSE [c EXCEPT ![key] = @ + 1]

\* int(n / d) without round(): truncation
RoundDown(n, d) == n \div d

\* int(round(n / d)) for n >= 0, d > 0: Python 3 rounds to the nearest
\* integer and a tie to the even one.  The code rounds the double
\* (occupied / total_spaces) * 100, which equals the exact quotient's
\* rounding for every total_spaces below 40 (the first tie a double
\* misplaces is 23/40).
RoundHalfEven(n, d) ==
    LET q == n \div d
        r2 == 2 * (n % d)
    IN  IF r2 > d THEN q + 1
        ELSE IF r2 < d THEN q
        ELSE IF q % 2 = 0 THEN q ELSE q + 1

\* A different total, with lots counted as spaces
TotalSpaces_WithLots(c) == c.occupied + c.empty + c.lots

\* total_spaces = counts["occupied"] + counts["empty"]
TotalSpaces(c) == c.occupied + c.empty

\* occupancy_rate = int(round((occupied / total_spaces) * 100)) if total_spaces else 0
OccupancyRate(c) ==
    IF TotalSpaces(c) # 0 THEN RoundHalfEven(c.occupied * 100, TotalSpaces(c)) ELSE 0

\* The returned dict
StatsOf(c) ==
    [occupied |-> c.occupied,
     empty |-> c.empty,
     total_spaces |-> TotalSpaces(c),
     occupancy_rate |-> OccupancyRate(c),
     lots_detected |-> c.lots]

\* _extract_occupancy_stats on a whole list of class ids
RECURSIVE CountAll(_, _)
CountAll(c, cids) ==
    IF cids = <<>> THEN c ELSE CountAll(CountStep(c, Head(cids)), Tail(cids))

ExtractOccupancyStats(cids) == StatsOf(CountAll(ZeroCounts, cids))

StatsInit ==
    /\ spc = "idle"
    /\ sLen = 0
    /\ sIdx = 0
    /\ sLast = -1
    /\ counts = ZeroCounts
    /\ stats = "none"

\* Entry: counts is zeroed and class_ids is read from the result (a result
\* without boxes gives the empty list).
StatsCall ==
    /\ spc = "idle"
    /\ \E n \in 0..MaxDet : sLen' = n
    /\ spc' = "loop"
    /\ sIdx' = 0
    /\ sLast' = -1
    /\ counts' = ZeroCounts
    /\ stats' = "none"

\* One iteration of the loop on the next class id of the list
StatsLoop ==
    /\ spc = "loop"
    /\ sIdx < sLen
    /\ \E cid \in ClassIds :
          /\ sLast' = cid
          /\ counts' = CountStep(counts, cid)
    /\ sIdx' = sIdx + 1
    /\ UNCHANGED <<spc, sLen, stats>>

\* The list is exhausted: compute total_spaces and occupancy_rate, return
StatsReturn ==
    /\ spc = "loop"
    /\ sIdx = sLen
    /\ stats' = StatsOf(counts)
    /\ spc' = "done"
    /\ UNCHANGED <<sLen, sIdx, sLast, counts>>

\* The caller drops the result; the function may be called again
StatsReset ==
    /\ spc = "done"
    /\ spc' = "idle"
    /\ sLen' = 0
    /\ sIdx' = 0
    /\ sLast' = -1
    /\ counts' = ZeroCounts
    /\ stats' = "none"

StatsNext == StatsCall \/ StatsLoop \/ StatsReturn \/ StatsReset


(***************************************************************************)
(* Capture: capture_frame, _capture_with_fswebcam, _capture_with_webcam.   *)
(***************************************************************************)
\* A failure reason: the attempt it is about and what the text says.
Reason(att, kind) == [att |-> att, kind |-> kind]

\* The bytes of a file or buffer: nothing, zero bytes, or an image, with the
\* cycle and the attempt that produced them.
NoBytes == [state |-> "absent", by |-> 0, att |-> "-"]
Bytes(state, p, att) == [state |-> state, by |-> p, att |-> att]

NoProc == [rc |-> 0, stderr |-> "-"]
NoRet == [kind |-> "none", data |-> NoBytes, msg |-> <<>>]
NoPending == [how |-> "-", msg |-> <<>>]

\* The devices in the other order
FsDevices_Swapped == <<"fs0", "fs1">>

\* for device in ("/dev/video1", "/dev/video0")
FsDevices == <<"fs1", "fs0">>

\* for device in (0, 1)
WebDevices == <<"web0", "web1">>

\* "; ".join(errors): the joined text holds every reason of every element
RECURSIVE Join(_)
Join(msgs) == IF msgs = <<>> THEN <<>> ELSE Head(msgs) \o Join(Tail(msgs))

\* What subprocess.run of a capture command can do: time out, fail to start
\* (OSError), or exit with a return code and a stderr that is some text,
\* blank, or not decodable; the command may have written nothing, an empty
\* file or an image to its output path.
RunOutcomes ==
    [kind : {"exit"}, rc : {0, 1}, wrote : {"nothing", "empty", "image"},
     stderr : {"text", "blank", "undecodable"}]
    \cup [kind : {"timeout"}, rc : {0}, wrote : {"nothing", "empty", "image"},
          stderr : {"-"}]
    \cup [kind : {"oserror"}, rc : {0}, wrote : {"nothing"}, stderr : {"-"}]

\* The command's effect on its output file
WriteFile(f, name, o, p, att) ==
    IF o.wrote = "nothing" THEN f
    ELSE [f EXCEPT ![name] = Bytes(o.wrote, p, att)]

\* An unlink that leaves the file in place
Unlink_Keep(f, name) == f

\* temp_path.unlink(missing_ok=True)
Unlink(f, name) == [f EXCEPT ![name] = NoBytes]

Exists(f, name) == f[name].state # "absent"

\* history: a new attempt, and the outcome of the last one
Attempt(log, att) == Append(log, [att |-> att, res |-> "pending"])
Resolve(log, res) == [log EXCEPT ![Len(log)].res = res]

CapInit ==
    /\ installed \in SUBSET {"rpicam-still", "fswebcam"}
    /\ openable \in SUBSET {"web0", "web1"}
    /\ tmpFile = [n \in {"rpicam", "fswebcam"} |-> NoBytes]
    /\ held = [p \in Procs |-> {}]
    /\ cpc = [p \in Procs |-> "idle"]
    /\ cfErrors = [p \in Procs |-> <<>>]
    /\ adErrors = [p \in Procs |-> <<>>]
    /\ devIdx = [p \in Procs |-> 1]
    /\ proc = [p \in Procs |-> NoProc]
    /\ data = [p \in Procs |-> NoBytes]
    /\ pending = [p \in Procs |-> NoPending]
    /\ cfRet = [p \in Procs |-> NoRet]
    /\ attempts = [p \in Procs |-> <<>>]

\* capture_frame, entry: errors = []; rpicam = shutil.which("rpicam-still");
\* the rpicam block is entered only when the executable is found.
CaptureCall(p) ==
    /\ p \in active
    /\ cpc[p] = "idle"
    /\ cpc' = [cpc EXCEPT ![p] =
                  IF "rpicam-still" \in installed THEN "rp_run" ELSE "fs_which"]
    /\ cfErrors' = [cfErrors EXCEPT ![p] = <<>>]
    /\ adErrors' = [adErrors EXCEPT ![p] = <<>>]
    /\ devIdx' = [devIdx EXCEPT ![p] = 1]
    /\ proc' = [proc EXCEPT ![p] = NoProc]
    /\ data' = [data EXCEPT ![p] = NoBytes]
    /\ pending' = [pending EXCEPT ![p] = NoPending]
    /\ cfRet' = [cfRet EXCEPT ![p] = NoRet]
    /\ attempts' = [attempts EXCEPT ![p] = <<>>]
    /\ UNCHANGED <<installed, openable, tmpFile, held>>

\* subprocess.run([rpicam, "-o", temp_path, "-t", "1000"], timeout=10) and
\* the two except clauses that follow it
RpRun(p) ==
    /\ cpc[p] = "rp_run"
    /\ \E o \in RunOutcomes :
          /\ tmpFile' = WriteFile(tmpFile, "rpicam", o, p, "rpicam")
          /\ attempts' = [attempts EXCEPT ![p] = Attempt(@, "rpicam")]
          /\ CASE o.kind = "exit" ->
                    /\ proc' = [proc EXCEPT ![p] = [rc |-> o.rc, stderr |-> o.stderr]]
                    /\ cpc' = [cpc EXCEPT ![p] = "rp_exists"]
                    /\ UNCHANGED cfErrors
               [] o.kind = "timeout" ->
                    /\ cfErrors' = [cfErrors EXCEPT ![p] =
                                       Append(@, <<Reason("rpicam", "timeout")>>)]
                    /\ cpc' = [cpc EXCEPT ![p] = "rp_finally"]
                    /\ UNCHANGED proc
               [] o.kind = "oserror" ->
                    /\ cfErrors' = [cfErrors EXCEPT ![p] =
                                       Append(@, <<Reason("rpicam", "error")>>)]
                    /\ cpc' = [cpc EXCEPT ![p] = "rp_finally"]
                    /\ UNCHANGED proc
    /\ pending' = [pending EXCEPT ![p] = [how |-> "next", msg |-> <<>>]]
    /\ UNCHANGED <<installed, openable, held, adErrors, devIdx, data, cfRet>>

\* if proc.returncode == 0 and temp_path.exists(): ... else: the stderr text,
\* or the default text when stderr is blank, is appended; a stderr that does
\* not decode raises, which `except Exception` turns into a reason.
RpExists(p) ==
    /\ cpc[p] = "rp_exists"
    /\ IF proc[p].rc = 0 /\ Exists(tmpFile, "rpicam")
       THEN /\ cpc' = [cpc EXCEPT ![p] = "rp_read"]
            /\ UNCHANGED cfErrors
       ELSE /\ cfErrors' = [cfErrors EXCEPT ![p] =
                   Append(@, <<Reason("rpicam",
                       CASE proc[p].stderr = "text" -> "stderr"
                         [] proc[p].stderr = "blank" -> "unknown"
                         [] OTHER -> "error")>>)]
            /\ cpc' = [cpc EXCEPT ![p] = "rp_finally"]
    /\ UNCHANGED <<installed, openable, tmpFile, held, adErrors, devIdx, proc, data,
                   pending, cfRet, attempts>>

\* data = temp_path.read_bytes(); a file that is gone raises, which
\* `except Exception` turns into a reason.
RpRead(p) ==
    /\ cpc[p] = "rp_read"
    /\ IF Exists(tmpFile, "rpicam")
       THEN /\ data' = [data EXCEPT ![p] = tmpFile["rpicam"]]
            /\ cpc' = [cpc EXCEPT ![p] = "rp_unlink"]
            /\ UNCHANGED cfErrors
       ELSE /\ cfErrors' = [cfErrors EXCEPT ![p] =
                               Append(@, <<Reason("rpicam", "error")>>)]
            /\ cpc' = [cpc EXCEPT ![p] = "rp_finally"]
            /\ UNCHANGED data
    /\ UNCHANGED <<installed, openable, tmpFile, held, adErrors, devIdx, proc, pending,
                   cfRet, attempts>>

\* temp_path.unlink(missing_ok=True); if not data: errors.append(...)
\* else: return data (the finally clause runs before the return)
RpUnlink(p) ==
    /\ cpc[p] = "rp_unlink"
    /\ tmpFile' = Unlink(tmpFile, "rpicam")
    /\ IF data[p].state = "empty"
       THEN /\ cfErrors' = [cfErrors EXCEPT ![p] =
                               Append(@, <<Reason("rpicam", "empty")>>)]
            /\ UNCHANGED pending
       ELSE /\ pending' = [pending EXCEPT ![p] = [how |-> "return", msg |-> <<>>]]
            /\ UNCHANGED cfErrors
    /\ cpc' = [cpc EXCEPT ![p] = "rp_finally"]
    /\ UNCHANGED <<installed, openable, held, adErrors, devIdx, proc, data, cfRet, attempts>>

\* finally: temp_path.unlink(missing_ok=True); then the pending return, or
\* on to the fswebcam adapter
RpFinally(p) ==
    /\ cpc[p] = "rp_finally"
    /\ tmpFile' = Unlink(tmpFile, "rpicam")
    /\ IF pending[p].how = "return"
       THEN /\ cfRet' = [cfRet EXCEPT ![p] =
                            [kind |-> "return", data |-> data[p], msg |-> <<>>]]
            /\ cpc' = [cpc EXCEPT ![p] = "returned"]
            /\ attempts' = [attempts EXCEPT ![p] = Resolve(@, "ok")]
       ELSE /\ cpc' = [cpc EXCEPT ![p] = "fs_which"]
            /\ attempts' = [attempts EXCEPT ![p] = Resolve(@, "fail")]
            /\ UNCHANGED cfRet
    /\ pending' = [pending EXCEPT ![p] = NoPending]
    /\ UNCHANGED <<installed, openable, held, cfErrors, adErrors, devIdx, proc, data>>

\* capture_frame catches the adapter's exception (`except Exception as exc:
\* errors.append(str(exc))`) and calls _capture_with_webcam, whose errors
\* list starts empty.
FsFailed(p, msg) ==
    /\ cfErrors' = [cfErrors EXCEPT ![p] = Append(@, msg)]
    /\ adErrors' = [adErrors EXCEPT ![p] = <<>>]
    /\ devIdx' = [devIdx EXCEPT ![p] = 1]
    /\ cpc' = [cpc EXCEPT ![p] = "web_open"]

\* _capture_with_fswebcam, entry: exe = shutil.which("fswebcam"); without it
\* RuntimeError("fswebcam is not installed."); else errors = [] and the loop
FsWhich(p) ==
    /\ cpc[p] = "fs_which"
    /\ IF "fswebcam" \in installed
       THEN /\ adErrors' = [adErrors EXCEPT ![p] = <<>>]
            /\ devIdx' = [devIdx EXCEPT ![p] = 1]
            /\ cpc' = [cpc EXCEPT ![p] = "fs_run"]
            /\ UNCHANGED cfErrors
       ELSE FsFailed(p, <<Reason("fswebcam", "not_installed")>>)
    /\ UNCHANGED <<installed, openable, tmpFile, held, proc, data, pending, cfRet, attempts>>

\* subprocess.run([exe, "-d", device, ...], timeout=12) and what follows it
\* up to the test of the output file: a timeout is appended by the except
\* clause, a non-zero return code appends the stderr text (or 'fswebcam
\* failed') and continues; any other exception (the command cannot be
\* started, stderr does not decode) leaves the function through finally.
FsRun(p) ==
    /\ cpc[p] = "fs_run"
    /\ LET dev == FsDevices[devIdx[p]] IN
       \E o \in RunOutcomes :
          /\ tmpFile' = WriteFile(tmpFile, "fswebcam", o, p, dev)
          /\ attempts' = [attempts EXCEPT ![p] = Attempt(@, dev)]
          /\ CASE o.kind = "timeout" ->
                    /\ adErrors' = [adErrors EXCEPT ![p] =
                                       Append(@, Reason(dev, "timeout"))]
                    /\ pending' = [pending EXCEPT ![p] =
                                      [how |-> "continue", msg |-> <<>>]]
                    /\ cpc' = [cpc EXCEPT ![p] = "fs_finally"]
                    /\ UNCHANGED proc
               [] o.kind = "oserror" ->
                    /\ pending' = [pending EXCEPT ![p] =
                                      [how |-> "raise",
                                       msg |-> <<Reason(dev, "error")>>]]
                    /\ cpc' = [cpc EXCEPT ![p] = "fs_finally"]
                    /\ UNCHANGED <<adErrors, proc>>
               [] o.kind = "exit" /\ o.rc # 0 /\ o.stderr = "undecodable" ->
                    /\ pending' = [pending EXCEPT ![p] =
                                      [how |-> "raise",
                                       msg |-> <<Reason(dev, "error")>>]]
                    /\ cpc' = [cpc EXCEPT ![p] = "fs_finally"]
                    /\ UNCHANGED <<adErrors, proc>>
               [] o.kind = "exit" /\ o.rc # 0 /\ o.stderr # "undecodable" ->
                    /\ adErrors' = [adErrors EXCEPT ![p] =
                          Append(@, Reason(dev, IF o.stderr = "text"
                                                THEN "stderr" ELSE "failed"))]
                    /\ pending' = [pending EXCEPT ![p] =
                                      [how |-> "continue", msg |-> <<>>]]
                    /\ cpc' = [cpc EXCEPT ![p] = "fs_finally"]
                    /\ UNCHANGED proc
               [] o.kind = "exit" /\ o.rc = 0 ->
                    /\ proc' = [proc EXCEPT ![p] = [rc |-> o.rc, stderr |-> o.stderr]]
                    /\ cpc' = [cpc EXCEPT ![p] = "fs_exists"]
                    /\ UNCHANGED <<adErrors, pending>>
    /\ UNCHANGED <<installed, openable, held, cfErrors, devIdx, data, cfRet>>

\* if not temp_path.exists(): errors.append(...); continue
FsExists(p) ==
    /\ cpc[p] = "fs_exists"
    /\ IF Exists(tmpFile, "fswebcam")
       THEN /\ cpc' = [cpc EXCEPT ![p] = "fs_read"]
            /\ UNCHANGED <<adErrors, pending>>
       ELSE /\ adErrors' = [adErrors EXCEPT ![p] =
                   Append(@, Reason(FsDevices[devIdx[p]], "no_file"))]
            /\ pending' = [pending EXCEPT ![p] = [how |-> "continue", msg |-> <<>>]]
            /\ cpc' = [cpc EXCEPT ![p] = "fs_finally"]
    /\ UNCHANGED <<installed, openable, tmpFile, held, cfErrors, devIdx, proc, data,
                   cfRet, attempts>>

\* data = temp_path.read_bytes(); if not data: errors.append(...); continue;
\* return data.  A file that is gone raises FileNotFoundError, which no
\* except clause of the function catches.
FsRead(p) ==
    /\ cpc[p] = "fs_read"
    /\ LET dev == FsDevices[devIdx[p]] IN
       IF ~Exists(tmpFile, "fswebcam")
       THEN /\ pending' = [pending EXCEPT ![p] =
                              [how |-> "raise", msg |-> <<Reason(dev, "error")>>]]
            /\ UNCHANGED <<adErrors, data>>
       ELSE /\ data' = [data EXCEPT ![p] = tmpFile["fswebcam"]]
            /\ IF tmpFile["fswebcam"].state = "empty"
               THEN /\ adErrors' = [adErrors EXCEPT ![p] =
                                       Append(@, Reason(dev, "empty"))]
                    /\ pending' = [pending EXCEPT ![p] =
                                      [how |-> "continue", msg |-> <<>>]]
               ELSE /\ pending' = [pending EXCEPT ![p] =
                                      [how |-> "return", msg |-> <<>>]]
                    /\ UNCHANGED adErrors
    /\ cpc' = [cpc EXCEPT ![p] = "fs_finally"]
    /\ UNCHANGED <<installed, openable, tmpFile, held, cfErrors, devIdx, proc, cfRet,
                   attempts>>

\* finally: temp_path.unlink(missing_ok=True), then what the try statement
\* was left with: the return (capture_frame returns the adapter's bytes), the
\* propagating exception, or the next device; after the last device
\* RuntimeError("; ".join(errors) if errors else "fswebcam could not capture
\* on any device").
FsFinally(p) ==
    /\ cpc[p] = "fs_finally"
    /\ tmpFile' = Unlink(tmpFile, "fswebcam")
    /\ CASE pending[p].how = "return" ->
              /\ cfRet' = [cfRet EXCEPT ![p] =
                              [kind |-> "return", data |-> data[p], msg |-> <<>>]]
              /\ cpc' = [cpc EXCEPT ![p] = "returned"]
              /\ attempts' = [attempts EXCEPT ![p] = Resolve(@, "ok")]
              /\ UNCHANGED <<cfErrors, adErrors, devIdx>>
         [] pending[p].how = "raise" ->
              /\ FsFailed(p, pending[p].msg)
              /\ attempts' = [attempts EXCEPT ![p] = Resolve(@, "fail")]
              /\ UNCHANGED cfRet
         [] pending[p].how = "continue" /\ devIdx[p] < Len(FsDevices) ->
              /\ devIdx' = [devIdx EXCEPT ![p] = @ + 1]
              /\ cpc' = [cpc EXCEPT ![p] = "fs_run"]
              /\ attempts' = [attempts EXCEPT ![p] = Resolve(@, "fail")]
              /\ UNCHANGED <<cfErrors, adErrors, cfRet>>
         [] pending[p].how = "continue" /\ devIdx[p] >= Len(FsDevices) ->
              /\ FsFailed(p, IF adErrors[p] = <<>>
                             THEN <<Reason("fswebcam", "no_device")>>
                             ELSE adErrors[p])
              /\ attempts' = [attempts EXCEPT ![p] = Resolve(@, "fail")]
              /\ UNCHANGED cfRet
    /\ pending' = [pending EXCEPT ![p] = NoPending]
    /\ UNCHANGED <<installed, openable, held, proc, data>>

\* raise RuntimeError("No camera could capture a frame. Attempts: " +
\* "; ".join(errors)), after capture_frame appended the webcam adapter's
\* exception text msg to errors
CaptureFailed(p, msg) ==
    LET all == Append(cfErrors[p], msg) IN
    /\ cfErrors' = [cfErrors EXCEPT ![p] = all]
    /\ cfRet' = [cfRet EXCEPT ![p] =
                    [kind |-> "raise", data |-> NoBytes,
                     msg |-> <<Reason("capture_frame", "header")>> \o Join(all)]]
    /\ cpc' = [cpc EXCEPT ![p] = "raised"]

\* `continue` in the loop of _capture_with_webcam with errors now errs: the
\* next device, or after the last one RuntimeError("; ".join(errors) if
\* errors else "No USB webcam detected."), which capture_frame catches.
WebContinue(p, errs) ==
    /\ adErrors' = [adErrors EXCEPT ![p] = errs]
    /\ IF devIdx[p] < Len(WebDevices)
       THEN /\ devIdx' = [devIdx EXCEPT ![p] = @ + 1]
            /\ cpc' = [cpc EXCEPT ![p] = "web_open"]
            /\ UNCHANGED <<cfErrors, cfRet>>
       ELSE /\ CaptureFailed(p, IF errs = <<>>
                                THEN <<Reason("webcam", "no_device")>>
                                ELSE errs)
            /\ UNCHANGED devIdx

\* cv2.VideoCapture(device).isOpened(): the device is there and no other
\* cycle holds it
IsOpened(p, dev) == dev \in openable /\ \A q \in Procs \ {p} : dev \notin held[q]

\* camera = cv2.VideoCapture(device); if not camera.isOpened():
\* camera.release(); errors.append(...); continue
WebOpen(p) ==
    /\ cpc[p] = "web_open"
    /\ LET dev == WebDevices[devIdx[p]] IN
          IF IsOpened(p, dev)
          THEN /\ held' = [held EXCEPT ![p] = @ \cup {dev}]
               /\ cpc' = [cpc EXCEPT ![p] = "web_read"]
               /\ attempts' = [attempts EXCEPT ![p] = Attempt(@, dev)]
               /\ UNCHANGED <<cfErrors, adErrors, devIdx, cfRet>>
          ELSE /\ WebContinue(p, Append(adErrors[p], Reason(dev, "not_detected")))
               /\ attempts' = [attempts EXCEPT ![p] =
                                  Resolve(Attempt(@, dev), "fail")]
               /\ UNCHANGED held
    /\ UNCHANGED <<installed, openable, tmpFile, proc, data, pending>>

\* ok, frame = camera.read(); an exception of read leaves the function at
\* once (no except or finally clause in _capture_with_webcam) and
\* capture_frame appends its text.
WebRead(p) ==
    /\ cpc[p] = "web_read"
    /\ LET dev == WebDevices[devIdx[p]] IN
       \E r \in {"ok", "fail", "raise"} :
          IF r = "raise"
          THEN /\ CaptureFailed(p, <<Reason(dev, "error")>>)
               /\ attempts' = [attempts EXCEPT ![p] = Resolve(@, "fail")]
               /\ UNCHANGED pending
          ELSE /\ pending' = [pending EXCEPT ![p] = [how |-> r, msg |-> <<>>]]
               /\ cpc' = [cpc EXCEPT ![p] = "web_release"]
               /\ UNCHANGED <<cfErrors, cfRet, attempts>>
    /\ UNCHANGED <<installed, openable, tmpFile, held, adErrors, devIdx, proc, data>>

\* camera.release(); if not ok: errors.append(...); continue;
\* ok, encoded = cv2.imencode(".jpg", frame); if not ok: errors.append(...);
\* continue; return encoded.tobytes()
WebRelease(p) ==
    /\ cpc[p] = "web_release"
    /\ LET dev == WebDevices[devIdx[p]] IN
       /\ held' = [held EXCEPT ![p] = @ \ {dev}]
       /\ IF pending[p].how = "fail"
          THEN /\ WebContinue(p, Append(adErrors[p], Reason(dev, "read_failed")))
               /\ attempts' = [attempts EXCEPT ![p] = Resolve(@, "fail")]
               /\ UNCHANGED data
          ELSE \E encoded \in BOOLEAN :
                  IF encoded
                  THEN /\ data' = [data EXCEPT ![p] = Bytes("image", p, dev)]
                       /\ cfRet' = [cfRet EXCEPT ![p] =
                             [kind |-> "return", data |-> Bytes("image", p, dev),
                              msg |-> <<>>]]
                       /\ cpc' = [cpc EXCEPT ![p] = "returned"]
                       /\ attempts' = [attempts EXCEPT ![p] = Resolve(@, "ok")]
                       /\ UNCHANGED <<cfErrors, adErrors, devIdx>>
                  ELSE /\ WebContinue(p, Append(adErrors[p],
                                                Reason(dev, "encode_failed")))
                       /\ attempts' = [attempts EXCEPT ![p] = Resolve(@, "fail")]
                       /\ UNCHANGED data
    /\ pending' = [pending EXCEPT ![p] = NoPending]
    /\ UNCHANGED <<installed, openable, tmpFile, proc>>

\* The caller has taken the result: the frame of capture_frame is gone, and
\* with it every object the call still referenced.
CaptureDone(p) ==
    /\ cpc[p] \in {"returned", "raised"}
    /\ cpc' = [cpc EXCEPT ![p] = "idle"]
    /\ held' = [held EXCEPT ![p] = {}]
    /\ cfErrors' = [cfErrors EXCEPT ![p] = <<>>]
    /\ adErrors' = [adErrors EXCEPT ![p] = <<>>]
    /\ devIdx' = [devIdx EXCEPT ![p] = 1]
    /\ proc' = [proc EXCEPT ![p] = NoProc]
    /\ data' = [data EXCEPT ![p] = NoBytes]
    /\ pending' = [pending EXCEPT ![p] = NoPending]
    /\ cfRet' = [cfRet EXCEPT ![p] = NoRet]
    /\ attempts' = [attempts EXCEPT ![p] = <<>>]
    /\ UNCHANGED <<installed, openable, tmpFile>>

\* One step of one capture_frame call
CapStep(p) ==
    \/ CaptureCall(p)
    \/ RpRun(p)
    \/ RpExists(p)
    \/ RpRead(p)
    \/ RpUnlink(p)
    \/ RpFinally(p)
    \/ FsWhich(p)
    \/ FsRun(p)
    \/ FsExists(p)
    \/ FsRead(p)
    \/ FsFinally(p)
    \/ WebOpen(p)
    \/ WebRead(p)
    \/ WebRelease(p)
    \/ CaptureDone(p)

(***************************************************************************)
(* Model provisioning: get_model and _download_model.                      *)
(***************************************************************************)
AllChunks == 1..NChunks

NoFile == [exists |-> FALSE, chunks |-> {}, complete |-> FALSE]
WholeFile == [exists |-> TRUE, chunks |-> AllChunks, complete |-> TRUE]

NoModelRet == [kind |-> "none", handle |-> 0, err |-> "-"]

NoIO == [net |-> 0, disk |-> 0]

\* The process starts with no handle; the artifact is absent, or present
\* from an earlier run of the process.
ProvInit ==
    /\ model = 0
    /\ dirExists \in BOOLEAN
    /\ file \in {NoFile} \cup (IF dirExists THEN {WholeFile} ELSE {})
    /\ nFetch = 0
    /\ nLoad = 0
    /\ nWritten = 0
    /\ nCalls = 0
    /\ firstRet = 0
    /\ mpc = [p \in Procs |-> "idle"]
    /\ downloaded = [p \in Procs |-> 0]
    /\ total_size = [p \in Procs |-> 0]
    /\ fdLive = [p \in Procs |-> FALSE]
    /\ loaded = [p \in Procs |-> 0]
    /\ mRet = [p \in Procs |-> NoModelRet]
    /\ callIO = [p \in Procs |-> NoIO]
    /\ lateCall = [p \in Procs |-> FALSE]
    /\ loadSaw = [p \in Procs |-> "-"]

\* get_model is called
GetModelCall(p) ==
    /\ p \in active
    /\ mpc[p] = "idle"
    /\ nCalls < MaxCalls
    /\ nCalls' = nCalls + 1
    /\ mpc' = [mpc EXCEPT ![p] = "check"]
    /\ downloaded' = [downloaded EXCEPT ![p] = 0]
    /\ total_size' = [total_size EXCEPT ![p] = 0]
    /\ loaded' = [loaded EXCEPT ![p] = 0]
    /\ mRet' = [mRet EXCEPT ![p] = NoModelRet]
    /\ callIO' = [callIO EXCEPT ![p] = NoIO]
    /\ lateCall' = [lateCall EXCEPT ![p] = firstRet # 0]
    /\ loadSaw' = [loadSaw EXCEPT ![p] = "-"]
    /\ UNCHANGED <<nWritten, model, dirExists, file, nFetch, nLoad, firstRet, fdLive>>

\* A get_model without the test of _model: every call provisions
GmCheck_NoCache(p) ==
    /\ mpc[p] = "check"
    /\ mpc' = [mpc EXCEPT ![p] = "mkdir"]
    /\ UNCHANGED <<nWritten, model, dirExists, file, nFetch, nLoad, nCalls, firstRet,
                   downloaded, total_size, fdLive, loaded, mRet, callIO,
                   lateCall, loadSaw>>

\* if _model is None: _download_model() ... ; else straight to the return
GmCheck(p) ==
    /\ mpc[p] = "check"
    /\ mpc' = [mpc EXCEPT ![p] = IF model = 0 THEN "mkdir" ELSE "return"]
    /\ UNCHANGED <<nWritten, model, dirExists, file, nFetch, nLoad, nCalls, firstRet,
                   downloaded, total_size, fdLive, loaded, mRet, callIO,
                   lateCall, loadSaw>>

\* MODEL_DIR.mkdir(parents=True, exist_ok=True)
DlMkdir(p) ==
    /\ mpc[p] = "mkdir"
    /\ dirExists' = TRUE
    /\ callIO' = [callIO EXCEPT ![p].disk = @ + 1]
    /\ mpc' = [mpc EXCEPT ![p] = "exists"]
    /\ UNCHANGED <<nWritten, model, file, nFetch, nLoad, nCalls, firstRet, downloaded,
                   total_size, fdLive, loaded, mRet, lateCall, loadSaw>>

\* if MODEL_PATH.exists(): return
DlExists(p) ==
    /\ mpc[p] = "exists"
    /\ callIO' = [callIO EXCEPT ![p].disk = @ + 1]
    /\ mpc' = [mpc EXCEPT ![p] = IF file.exists THEN "load" ELSE "get"]
    /\ UNCHANGED <<nWritten, model, dirExists, file, nFetch, nLoad, nCalls, firstRet,
                   downloaded, total_size, fdLive, loaded, mRet, lateCall,
                   loadSaw>>

\* response = requests.get(MODEL_URL, stream=True, timeout=60);
\* response.raise_for_status(); total_size = int(content-length or 0).
\* A connection error or an error status raises out of get_model.
DlGet(p) ==
    /\ mpc[p] = "get"
    /\ nFetch' = nFetch + 1
    /\ callIO' = [callIO EXCEPT ![p].net = @ + 1]
    /\ \E r \in {"ok", "error"} :
          IF r = "ok"
          THEN /\ \E t \in {0, NChunks} : total_size' = [total_size EXCEPT ![p] = t]
               /\ mpc' = [mpc EXCEPT ![p] = "open"]
               /\ UNCHANGED mRet
          ELSE /\ mRet' = [mRet EXCEPT ![p] =
                              [kind |-> "raise", handle |-> 0, err |-> "download"]]
               /\ mpc' = [mpc EXCEPT ![p] = "raised"]
               /\ UNCHANGED total_size
    /\ UNCHANGED <<nWritten, model, dirExists, file, nLoad, nCalls, firstRet, downloaded,
                   fdLive, loaded, lateCall, loadSaw>>

\* with open(MODEL_PATH, "wb") as file: creates the file, or truncates the
\* one the path names
DlOpen(p) ==
    /\ mpc[p] = "open"
    /\ file' = [exists |-> TRUE, chunks |-> {}, complete |-> FALSE]
    /\ fdLive' = [fdLive EXCEPT ![p] = TRUE]
    /\ callIO' = [callIO EXCEPT ![p].disk = @ + 1]
    /\ mpc' = [mpc EXCEPT ![p] = "write"]
    /\ UNCHANGED <<nWritten, model, dirExists, nFetch, nLoad, nCalls, firstRet,
                   downloaded, total_size, loaded, mRet, lateCall, loadSaw>>

\* The with block is left normally: the file is closed
CloseFile(p, f) ==
    /\ file' = IF fdLive[p] THEN [f EXCEPT !.complete = (f.chunks = AllChunks)] ELSE f
    /\ fdLive' = [fdLive EXCEPT ![p] = FALSE]
    /\ nWritten' = nWritten + 1
    /\ mpc' = [mpc EXCEPT ![p] = "load"]

\* One iteration of `for chunk in response.iter_content(chunk_size)`:
\* file.write(chunk); downloaded += len(chunk); break once downloaded reaches
\* a known total_size.  The transfer may instead be interrupted, which
\* raises inside the try statement.  (An empty chunk is skipped and changes
\* nothing.)
DlWrite(p) ==
    /\ mpc[p] = "write"
    /\ downloaded[p] < NChunks
    /\ callIO' = [callIO EXCEPT ![p].disk = @ + 1]
    /\ \E r \in {"chunk", "interrupted"} :
          IF r = "chunk"
          THEN LET n == downloaded[p] + 1
                   f == IF fdLive[p]
                        THEN [file EXCEPT !.chunks = @ \cup {n}]
                        ELSE file
               IN  /\ downloaded' = [downloaded EXCEPT ![p] = n]
                   /\ IF total_size[p] # 0 /\ n >= total_size[p]
                      THEN CloseFile(p, f)
                      ELSE /\ file' = f
                           /\ UNCHANGED <<fdLive, mpc, nWritten>>
          ELSE /\ fdLive' = [fdLive EXCEPT ![p] = FALSE]
               /\ mpc' = [mpc EXCEPT ![p] = "except"]
               /\ UNCHANGED <<file, downloaded, nWritten>>
    /\ UNCHANGED <<model, dirExists, nFetch, nLoad, nCalls, firstRet, total_size,
                   loaded, mRet, lateCall, loadSaw>>

\* The iterator is exhausted (no content-length was sent): the loop ends
DlEof(p) ==
    /\ mpc[p] = "write"
    /\ downloaded[p] = NChunks
    /\ CloseFile(p, file)
    /\ UNCHANGED <<model, dirExists, nFetch, nLoad, nCalls, firstRet, downloaded,
                   total_size, loaded, mRet, callIO, lateCall, loadSaw>>

\* An except clause that re-raises without removing the file
DlExcept_KeepPartial(p) ==
    /\ mpc[p] = "except"
    /\ callIO' = [callIO EXCEPT ![p].disk = @ + 1]
    /\ mRet' = [mRet EXCEPT ![p] = [kind |-> "raise", handle |-> 0, err |-> "download"]]
    /\ mpc' = [mpc EXCEPT ![p] = "raised"]
    /\ UNCHANGED <<nWritten, model, dirExists, file, fdLive, nFetch, nLoad, nCalls,
                   firstRet, downloaded, total_size, loaded, lateCall, loadSaw>>

\* except Exception: if MODEL_PATH.exists(): MODEL_PATH.unlink(); raise
DlExcept(p) ==
    /\ mpc[p] = "except"
    /\ file' = NoFile
    /\ fdLive' = [q \in Procs |-> FALSE]
    /\ callIO' = [callIO EXCEPT ![p].disk = @ + 1]
    /\ mRet' = [mRet EXCEPT ![p] = [kind |-> "raise", handle |-> 0, err |-> "download"]]
    /\ mpc' = [mpc EXCEPT ![p] = "raised"]
    /\ UNCHANGED <<nWritten, model, dirExists, nFetch, nLoad, nCalls, firstRet, downloaded,
                   total_size, loaded, lateCall, loadSaw>>

\* YOLO(str(MODEL_PATH), task="detect"): reads the file the path names; a
\* missing file raises.
GmLoad(p) ==
    /\ mpc[p] = "load"
    /\ callIO' = [callIO EXCEPT ![p].disk = @ + 1]
    /\ IF file.exists
       THEN /\ nLoad' = nLoad + 1
            /\ loaded' = [loaded EXCEPT ![p] = nLoad + 1]
            /\ loadSaw' = [loadSaw EXCEPT ![p] =
                              IF file.complete THEN "complete" ELSE "partial"]
            /\ mpc' = [mpc EXCEPT ![p] = "assign"]
            /\ UNCHANGED mRet
       ELSE /\ mRet' = [mRet EXCEPT ![p] =
                           [kind |-> "raise", handle |-> 0, err |-> "load"]]
            /\ mpc' = [mpc EXCEPT ![p] = "raised"]
            /\ UNCHANGED <<nLoad, loaded, loadSaw>>
    /\ UNCHANGED <<nWritten, model, dirExists, file, nFetch, nCalls, firstRet, downloaded,
                   total_size, fdLive, lateCall>>

\* _model = <the handle just made>
GmAssign(p) ==
    /\ mpc[p] = "assign"
    /\ model' = loaded[p]
    /\ mpc' = [mpc EXCEPT ![p] = "return"]
    /\ UNCHANGED <<nWritten, dirExists, file, nFetch, nLoad, nCalls, firstRet, downloaded,
                   total_size, fdLive, loaded, mRet, callIO, lateCall, loadSaw>>

\* return _model
GmReturn(p) ==
    /\ mpc[p] = "return"
    /\ mRet' = [mRet EXCEPT ![p] = [kind |-> "return", handle |-> model, err |-> "-"]]
    /\ firstRet' = IF firstRet = 0 THEN model ELSE firstRet
    /\ mpc' = [mpc EXCEPT ![p] = "returned"]
    /\ UNCHANGED <<nWritten, model, dirExists, file, nFetch, nLoad, nCalls, downloaded,
                   total_size, fdLive, loaded, callIO, lateCall, loadSaw>>

\* The caller has taken the result of get_model
GmDone(p) ==
    /\ mpc[p] \in {"returned", "raised"}
    /\ mpc' = [mpc EXCEPT ![p] = "idle"]
    /\ downloaded' = [downloaded EXCEPT ![p] = 0]
    /\ total_size' = [total_size EXCEPT ![p] = 0]
    /\ loaded' = [loaded EXCEPT ![p] = 0]
    /\ mRet' = [mRet EXCEPT ![p] = NoModelRet]
    /\ callIO' = [callIO EXCEPT ![p] = NoIO]
    /\ lateCall' = [lateCall EXCEPT ![p] = FALSE]
    /\ loadSaw' = [loadSaw EXCEPT ![p] = "-"]
    /\ UNCHANGED <<nWritten, model, dirExists, file, nFetch, nLoad, nCalls, firstRet,
                   fdLive>>

(***************************************************************************)
(* The request cycle: cameras_view, run_inference, _store_latest_stats.    *)
(***************************************************************************)
NoStats ==
    [set |-> FALSE, occupied |-> 0, empty |-> 0, total_spaces |-> 0,
     occupancy_rate |-> 0, lots_detected |-> 0]

\* A stats dict held by a local
Some(st) ==
    [set |-> TRUE, occupied |-> st.occupied, empty |-> st.empty,
     total_spaces |-> st.total_spaces, occupancy_rate |-> st.occupancy_rate,
     lots_detected |-> st.lots_detected]

NoCache == [set |-> FALSE, stats |-> NoStats, source |-> "-", updated_at |-> 0]

NoError == [set |-> FALSE, kind |-> "-", msg |-> <<>>]
Error(kind, msg) == [set |-> TRUE, kind |-> kind, msg |-> msg]

\* The class ids of the detections model.predict may return
DetectionInputs == {<<>>, <<0, 0, 1>>}

\* camera_available(): True when rpicam-still or fswebcam is found, else
\* when device 0 or 1 opens; every device opened is released at once.
CameraAvailable(p) ==
    \/ "rpicam-still" \in installed
    \/ "fswebcam" \in installed
    \/ \E i \in 1..Len(WebDevices) : IsOpened(p, WebDevices[i])

\* A view that labels every entry 'capture'
SourceOf_AlwaysCapture(kind) == "capture"

\* source = 'capture' in the capture branch, source = 'upload' in the
\* upload branch
SourceOf(kind) == IF kind = "capture" THEN "capture" ELSE "upload"

\* _store_latest_stats(stats, source) with timezone.now() = now
Payload(st, source, now) ==
    [set |-> TRUE, stats |-> st, source |-> source, updated_at |-> now]

ViewInit ==
    /\ cache = NoCache
    /\ nReq = 0
    /\ vpc = [p \in Procs |-> "idle"]
    /\ vReq = [p \in Procs |-> "-"]
    /\ camera_ready = [p \in Procs |-> FALSE]
    /\ vBytes = [p \in Procs |-> NoBytes]
    /\ riStats = [p \in Procs |-> NoStats]
    /\ vStats = [p \in Procs |-> NoStats]
    /\ vAnnot = [p \in Procs |-> FALSE]
    /\ vError = [p \in Procs |-> NoError]
    /\ vSource = [p \in Procs |-> "-"]
    /\ cacheAtStart = [p \in Procs |-> NoCache]
    /\ pIdx = [p \in Procs |-> 1]
    /\ pReady = [p \in Procs |-> FALSE]

\* cameras_view, entry: a request arrives (a GET, or a POST with 'capture',
\* with an image file, or with neither); result_image = error = source =
\* None; camera_available() is called.
ViewRequest(p) ==
    /\ p \in active
    /\ vpc[p] = "idle"
    /\ nReq < MaxRequests
    /\ nReq' = nReq + 1
    /\ \E kind \in {"get", "capture", "upload", "empty_post"} :
          vReq' = [vReq EXCEPT ![p] = kind]
    /\ cacheAtStart' = [cacheAtStart EXCEPT ![p] = cache]
    /\ vpc' = [vpc EXCEPT ![p] = "probe_which"]
    /\ UNCHANGED <<cache, camera_ready, vBytes, riStats, vStats, vAnnot, vError,
                   vSource, pIdx, pReady>>

\* The devices camera_available tries, with one left out
ProbeDevices_OnlyFirst == <<"web0">>

\* for device in (0, 1)
ProbeDevices == <<"web0", "web1">>

\* camera_available: rpicam_exists = shutil.which("rpicam-still") is not
\* None; if rpicam_exists or shutil.which("fswebcam"): return True
ProbeWhich(p) ==
    /\ vpc[p] = "probe_which"
    /\ IF "rpicam-still" \in installed \/ "fswebcam" \in installed
       THEN /\ camera_ready' = [camera_ready EXCEPT ![p] = TRUE]
            /\ vpc' = [vpc EXCEPT ![p] = "branch"]
       ELSE /\ vpc' = [vpc EXCEPT ![p] = "probe_open"]
            /\ UNCHANGED camera_ready
    /\ UNCHANGED <<cache, nReq, vReq, vBytes, riStats, vStats, vAnnot, vError,
                   vSource, cacheAtStart, pIdx, pReady>>
    /\ UNCHANGED capVars

\* camera_available: camera = cv2.VideoCapture(device);
\* ready = camera.isOpened()
ProbeOpen(p) ==
    /\ vpc[p] = "probe_open"
    /\ LET dev == ProbeDevices[pIdx[p]] IN
          IF IsOpened(p, dev)
          THEN /\ held' = [held EXCEPT ![p] = @ \cup {dev}]
               /\ pReady' = [pReady EXCEPT ![p] = TRUE]
          ELSE /\ pReady' = [pReady EXCEPT ![p] = FALSE]
               /\ UNCHANGED held
    /\ vpc' = [vpc EXCEPT ![p] = "probe_release"]
    /\ UNCHANGED <<cache, nReq, vReq, camera_ready, vBytes, riStats, vStats, vAnnot,
                   vError, vSource, cacheAtStart, pIdx>>
    /\ UNCHANGED <<installed, openable, tmpFile, cpc, cfErrors, adErrors, devIdx, proc,
                   data, pending, cfRet, attempts>>

\* A probe that returns True with the device still open
ProbeRelease_KeepOpen(p) ==
    /\ vpc[p] = "probe_release"
    /\ IF pReady[p]
       THEN /\ camera_ready' = [camera_ready EXCEPT ![p] = TRUE]
            /\ vpc' = [vpc EXCEPT ![p] = "branch"]
            /\ pIdx' = [pIdx EXCEPT ![p] = 1]
            /\ UNCHANGED held
       ELSE /\ held' = [held EXCEPT ![p] = @ \ {ProbeDevices[pIdx[p]]}]
            /\ IF pIdx[p] < Len(ProbeDevices)
               THEN /\ pIdx' = [pIdx EXCEPT ![p] = @ + 1]
                    /\ vpc' = [vpc EXCEPT ![p] = "probe_open"]
                    /\ UNCHANGED camera_ready
               ELSE /\ camera_ready' = [camera_ready EXCEPT ![p] = FALSE]
                    /\ vpc' = [vpc EXCEPT ![p] = "branch"]
                    /\ pIdx' = [pIdx EXCEPT ![p] = 1]
    /\ pReady' = [pReady EXCEPT ![p] = FALSE]
    /\ UNCHANGED <<cache, nReq, vReq, vBytes, riStats, vStats, vAnnot, vError,
                   vSource, cacheAtStart>>
    /\ UNCHANGED <<installed, openable, tmpFile, cpc, cfErrors, adErrors, devIdx, proc,
                   data, pending, cfRet, attempts>>

\* camera_available: camera.release(); if ready: return True; the next
\* device, or return False after the last one.  The result is bound to
\* camera_ready.
ProbeRelease(p) ==
    /\ vpc[p] = "probe_release"
    /\ held' = [held EXCEPT ![p] = @ \ {ProbeDevices[pIdx[p]]}]
    /\ IF pReady[p]
       THEN /\ camera_ready' = [camera_ready EXCEPT ![p] = TRUE]
            /\ vpc' = [vpc EXCEPT ![p] = "branch"]
            /\ pIdx' = [pIdx EXCEPT ![p] = 1]
       ELSE IF pIdx[p] < Len(ProbeDevices)
            THEN /\ pIdx' = [pIdx EXCEPT ![p] = @ + 1]
                 /\ vpc' = [vpc EXCEPT ![p] = "probe_open"]
                 /\ UNCHANGED camera_ready
            ELSE /\ camera_ready' = [camera_ready EXCEPT ![p] = FALSE]
                 /\ vpc' = [vpc EXCEPT ![p] = "branch"]
                 /\ pIdx' = [pIdx EXCEPT ![p] = 1]
    /\ pReady' = [pReady EXCEPT ![p] = FALSE]
    /\ UNCHANGED <<cache, nReq, vReq, vBytes, riStats, vStats, vAnnot, vError,
                   vSource, cacheAtStart>>
    /\ UNCHANGED <<installed, openable, tmpFile, cpc, cfErrors, adErrors, devIdx, proc,
                   data, pending, cfRet, attempts>>

\* cameras_view, the branch on the request: a GET renders at once, a POST
\* with neither 'capture' nor an image sets error, a POST with an image
\* reads its bytes (an image or not), a POST with 'capture' calls
\* capture_frame.
ViewBranch(p) ==
    /\ vpc[p] = "branch"
    /\ CASE vReq[p] = "get" ->
              /\ vpc' = [vpc EXCEPT ![p] = "done"]
              /\ UNCHANGED <<vBytes, vError>>
         [] vReq[p] = "empty_post" ->
              /\ vpc' = [vpc EXCEPT ![p] = "done"]
              /\ vError' = [vError EXCEPT ![p] = Error("no_input", <<>>)]
              /\ UNCHANGED vBytes
         [] vReq[p] = "capture" ->
              /\ vpc' = [vpc EXCEPT ![p] = "capture_call"]
              /\ UNCHANGED <<vBytes, vError>>
         [] vReq[p] = "upload" ->
              /\ vpc' = [vpc EXCEPT ![p] = "infer_call"]
              /\ \E st \in {"image", "garbage"} :
                    vBytes' = [vBytes EXCEPT ![p] = Bytes(st, p, "upload")]
              /\ UNCHANGED vError
    /\ UNCHANGED <<cache, nReq, vReq, camera_ready, riStats, vStats, vAnnot,
                   vSource, cacheAtStart, pIdx, pReady>>

\* captured_bytes = capture_frame(): the call
ViewCaptureCall(p) ==
    /\ vpc[p] = "capture_call"
    /\ CaptureCall(p)
    /\ vpc' = [vpc EXCEPT ![p] = "capture"]
    /\ UNCHANGED <<cache, nReq, vReq, camera_ready, vBytes, riStats, vStats,
                   vAnnot, vError, vSource, cacheAtStart, pIdx, pReady>>

\* captured_bytes = capture_frame(): the result; an exception goes to
\* `except Exception as exc: error = str(exc)`
ViewCaptureResult(p) ==
    /\ vpc[p] = "capture"
    /\ CaptureDone(p)
    /\ IF cfRet[p].kind = "return"
       THEN /\ vBytes' = [vBytes EXCEPT ![p] = cfRet[p].data]
            /\ vpc' = [vpc EXCEPT ![p] = "infer_call"]
            /\ UNCHANGED vError
       ELSE /\ vError' = [vError EXCEPT ![p] = Error("capture", cfRet[p].msg)]
            /\ vpc' = [vpc EXCEPT ![p] = "done"]
            /\ UNCHANGED vBytes
    /\ UNCHANGED <<cache, nReq, vReq, camera_ready, riStats, vStats, vAnnot,
                   vSource, cacheAtStart, pIdx, pReady>>

\* run_inference, entry: model = get_model(): the call
RiGetModelCall(p) ==
    /\ vpc[p] = "infer_call"
    /\ GetModelCall(p)
    /\ vpc' = [vpc EXCEPT ![p] = "get_model"]
    /\ UNCHANGED <<cache, nReq, vReq, camera_ready, vBytes, riStats, vStats,
                   vAnnot, vError, vSource, cacheAtStart, pIdx, pReady>>

\* model = get_model(): the result; an exception leaves run_inference and
\* goes to the except clause of cameras_view
RiGetModelResult(p) ==
    /\ vpc[p] = "get_model"
    /\ GmDone(p)
    /\ IF mRet[p].kind = "return"
       THEN /\ vpc' = [vpc EXCEPT ![p] = "decode"]
            /\ UNCHANGED vError
       ELSE /\ vError' = [vError EXCEPT ![p] = Error(mRet[p].err, <<>>)]
            /\ vpc' = [vpc EXCEPT ![p] = "done"]
    /\ UNCHANGED <<cache, nReq, vReq, camera_ready, vBytes, riStats, vStats,
                   vAnnot, vSource, cacheAtStart, pIdx, pReady>>

\* frame = _decode_image(image_bytes): raises ValueError("Invalid image
\* data") when cv2.imdecode gives None
RiDecode(p) ==
    /\ vpc[p] = "decode"
    /\ IF vBytes[p].state = "image"
       THEN /\ vpc' = [vpc EXCEPT ![p] = "predict"]
            /\ UNCHANGED vError
       ELSE /\ vError' = [vError EXCEPT ![p] = Error("decode", <<>>)]
            /\ vpc' = [vpc EXCEPT ![p] = "done"]
    /\ UNCHANGED <<cache, nReq, vReq, camera_ready, vBytes, riStats, vStats,
                   vAnnot, vSource, cacheAtStart, pIdx, pReady>>

\* results = model.predict(source=frame, conf=conf); result = results[0];
\* stats = _extract_occupancy_stats(result).  The detector may raise.
RiPredict(p) ==
    /\ vpc[p] = "predict"
    /\ \/ \E cids \in DetectionInputs :
             /\ riStats' = [riStats EXCEPT ![p] = Some(ExtractOccupancyStats(cids))]
             /\ vpc' = [vpc EXCEPT ![p] = "encode"]
             /\ UNCHANGED vError
       \/ /\ vError' = [vError EXCEPT ![p] = Error("predict", <<>>)]
          /\ vpc' = [vpc EXCEPT ![p] = "done"]
          /\ UNCHANGED riStats
    /\ UNCHANGED <<cache, nReq, vReq, camera_ready, vBytes, vStats, vAnnot,
                   vSource, cacheAtStart, pIdx, pReady>>

\* plotted = result.plot(); ok, encoded = cv2.imencode(".jpg", plotted);
\* if not ok: raise RuntimeError(...); return encoded.tobytes(), stats.
\* On the return cameras_view binds annotated and stats.
RiEncode(p) ==
    /\ vpc[p] = "encode"
    /\ \E ok \in BOOLEAN :
          IF ok
          THEN /\ vAnnot' = [vAnnot EXCEPT ![p] = TRUE]
               /\ vStats' = [vStats EXCEPT ![p] = riStats[p]]
               /\ vpc' = [vpc EXCEPT ![p] = "store"]
               /\ UNCHANGED vError
          ELSE /\ vError' = [vError EXCEPT ![p] = Error("encode", <<>>)]
               /\ vpc' = [vpc EXCEPT ![p] = "done"]
               /\ UNCHANGED <<vAnnot, vStats>>
    /\ UNCHANGED <<cache, nReq, vReq, camera_ready, vBytes, riStats, vSource,
                   cacheAtStart, pIdx, pReady>>

\* result_image = as_data_uri(annotated); source = ...;
\* _store_latest_stats(stats, source): cache.set("latest_occupancy_stats",
\* {**stats, "source": source, "updated_at": now}, timeout=None)
ViewStore(p) ==
    /\ vpc[p] = "store"
    /\ vSource' = [vSource EXCEPT ![p] = SourceOf(vReq[p])]
    /\ cache' = Payload(vStats[p], SourceOf(vReq[p]), nReq)
    /\ vpc' = [vpc EXCEPT ![p] = "done"]
    /\ UNCHANGED <<nReq, vReq, camera_ready, vBytes, riStats, vStats, vAnnot,
                   vError, cacheAtStart, pIdx, pReady>>

\* return render(request, 'cameras.html', context): the request is over
ViewDone(p) ==
    /\ vpc[p] = "done"
    /\ vpc' = [vpc EXCEPT ![p] = "idle"]
    /\ vReq' = [vReq EXCEPT ![p] = "-"]
    /\ camera_ready' = [camera_ready EXCEPT ![p] = FALSE]
    /\ vBytes' = [vBytes EXCEPT ![p] = NoBytes]
    /\ riStats' = [riStats EXCEPT ![p] = NoStats]
    /\ vStats' = [vStats EXCEPT ![p] = NoStats]
    /\ vAnnot' = [vAnnot EXCEPT ![p] = FALSE]
    /\ vError' = [vError EXCEPT ![p] = NoError]
    /\ vSource' = [vSource EXCEPT ![p] = "-"]
    /\ cacheAtStart' = [cacheAtStart EXCEPT ![p] = NoCache]
    /\ UNCHANGED <<cache, nReq, pIdx, pReady>>

(***************************************************************************)
(* Specifications.  Each runs one part of the program from its initial     *)
(* state and leaves the other parts at rest.                                *)
(***************************************************************************)
CapAtRest == CapInit /\ installed = {} /\ openable = {}

ProvAtRest == ProvInit /\ dirExists /\ file = WholeFile

\* Calls of _extract_occupancy_stats on every list of up to MaxDet class ids
InitStats == StatsInit /\ CapAtRest /\ ProvAtRest /\ ViewInit /\ active = {}

NextStats ==
    \/ StatsCall /\ UNCHANGED <<active, capVars, provVars, viewVars>>
    \/ StatsLoop /\ UNCHANGED <<active, capVars, provVars, viewVars>>
    \/ StatsReturn /\ UNCHANGED <<active, capVars, provVars, viewVars>>
    \/ StatsReset /\ UNCHANGED <<active, capVars, provVars, viewVars>>

SpecStats == InitStats /\ [][NextStats]_vars

\* Calls of capture_frame by one request cycle at a time, on every outcome
\* of the commands and devices
InitCapture == StatsInit /\ CapInit /\ ProvAtRest /\ ViewInit /\ active = {1}

NextCapture ==
    \E p \in Procs :
        \/ CaptureCall(p) /\ UNCHANGED <<active, statsVars, provVars, viewVars>>
        \/ RpRun(p) /\ UNCHANGED <<active, statsVars, provVars, viewVars>>
        \/ RpExists(p) /\ UNCHANGED <<active, statsVars, provVars, viewVars>>
        \/ RpRead(p) /\ UNCHANGED <<active, statsVars, provVars, viewVars>>
        \/ RpUnlink(p) /\ UNCHANGED <<active, statsVars, provVars, viewVars>>
        \/ RpFinally(p) /\ UNCHANGED <<active, statsVars, provVars, viewVars>>
        \/ FsWhich(p) /\ UNCHANGED <<active, statsVars, provVars, viewVars>>
        \/ FsRun(p) /\ UNCHANGED <<active, statsVars, provVars, viewVars>>
        \/ FsExists(p) /\ UNCHANGED <<active, statsVars, provVars, viewVars>>
        \/ FsRead(p) /\ UNCHANGED <<active, statsVars, provVars, viewVars>>
        \/ FsFinally(p) /\ UNCHANGED <<active, statsVars, provVars, viewVars>>
        \/ WebOpen(p) /\ UNCHANGED <<active, statsVars, provVars, viewVars>>
        \/ WebRead(p) /\ UNCHANGED <<active, statsVars, provVars, viewVars>>
        \/ WebRelease(p) /\ UNCHANGED <<active, statsVars, provVars, viewVars>>
        \/ CaptureDone(p) /\ UNCHANGED <<active, statsVars, provVars, viewVars>>

SpecCapture == InitCapture /\ [][NextCapture]_vars

\* Two request cycles inside capture_frame at the same time, on a host with
\* one capture executable and no capture device that opens: the cycles share
\* the fixed-name temporary file of that executable
InitCaptureShared ==
    /\ StatsInit /\ CapInit /\ ProvAtRest /\ ViewInit
    /\ installed \in {{"rpicam-still"}, {"fswebcam"}}
    /\ openable = {}
    /\ active = Procs

NextCaptureShared ==
    \E p \in Procs :
        \/ CaptureCall(p) /\ UNCHANGED <<active, statsVars, provVars, viewVars>>
        \/ RpRun(p) /\ UNCHANGED <<active, statsVars, provVars, viewVars>>
        \/ RpExists(p) /\ UNCHANGED <<active, statsVars, provVars, viewVars>>
        \/ RpRead(p) /\ UNCHANGED <<active, statsVars, provVars, viewVars>>
        \/ RpUnlink(p) /\ UNCHANGED <<active, statsVars, provVars, viewVars>>
        \/ RpFinally(p) /\ UNCHANGED <<active, statsVars, provVars, viewVars>>
        \/ FsWhich(p) /\ UNCHANGED <<active, statsVars, provVars, viewVars>>
        \/ FsRun(p) /\ UNCHANGED <<active, statsVars, provVars, viewVars>>
        \/ FsExists(p) /\ UNCHANGED <<active, statsVars, provVars, viewVars>>
        \/ FsRead(p) /\ UNCHANGED <<active, statsVars, provVars, viewVars>>
        \/ FsFinally(p) /\ UNCHANGED <<active, statsVars, provVars, viewVars>>
        \/ WebOpen(p) /\ UNCHANGED <<active, statsVars, provVars, viewVars>>
        \/ CaptureDone(p) /\ UNCHANGED <<active, statsVars, provVars, viewVars>>

SpecCaptureShared == InitCaptureShared /\ [][NextCaptureShared]_vars

\* One step of one get_model call
ProvStep(p) ==
    \/ GetModelCall(p)
    \/ GmCheck(p)
    \/ DlMkdir(p)
    \/ DlExists(p)
    \/ DlGet(p)
    \/ DlOpen(p)
    \/ DlWrite(p)
    \/ DlEof(p)
    \/ DlExcept(p)
    \/ GmLoad(p)
    \/ GmAssign(p)
    \/ GmReturn(p)
    \/ GmDone(p)

\* Calls of get_model by request cycles that run concurrently, interleaved
\* at every access to the shared handle, the file system and the network
InitProv == StatsInit /\ CapAtRest /\ ProvInit /\ ViewInit /\ active = Procs

NextProv ==
    \E p \in Procs :
        \/ GetModelCall(p) /\ UNCHANGED <<active, statsVars, capVars, viewVars>>
        \/ GmCheck(p) /\ UNCHANGED <<active, statsVars, capVars, viewVars>>
        \/ DlMkdir(p) /\ UNCHANGED <<active, statsVars, capVars, viewVars>>
        \/ DlExists(p) /\ UNCHANGED <<active, statsVars, capVars, viewVars>>
        \/ DlGet(p) /\ UNCHANGED <<active, statsVars, capVars, viewVars>>
        \/ DlOpen(p) /\ UNCHANGED <<active, statsVars, capVars, viewVars>>
        \/ DlWrite(p) /\ UNCHANGED <<active, statsVars, capVars, viewVars>>
        \/ DlEof(p) /\ UNCHANGED <<active, statsVars, capVars, viewVars>>
        \/ DlExcept(p) /\ UNCHANGED <<active, statsVars, capVars, viewVars>>
        \/ GmLoad(p) /\ UNCHANGED <<active, statsVars, capVars, viewVars>>
        \/ GmAssign(p) /\ UNCHANGED <<active, statsVars, capVars, viewVars>>
        \/ GmReturn(p) /\ UNCHANGED <<active, statsVars, capVars, viewVars>>
        \/ GmDone(p) /\ UNCHANGED <<active, statsVars, capVars, viewVars>>

SpecProv == InitProv /\ [][NextProv]_vars

\* Calls of get_model one after the other: a call begins only when no other
\* call is in progress
NoCallInProgress == \A q \in Procs : mpc[q] = "idle"

NextProvSeq ==
    \E p \in Procs :
        \/ GetModelCall(p) /\ NoCallInProgress /\ UNCHANGED <<active, statsVars, capVars, viewVars>>
        \/ GmCheck(p) /\ UNCHANGED <<active, statsVars, capVars, viewVars>>
        \/ DlMkdir(p) /\ UNCHANGED <<active, statsVars, capVars, viewVars>>
        \/ DlExists(p) /\ UNCHANGED <<active, statsVars, capVars, viewVars>>
        \/ DlGet(p) /\ UNCHANGED <<active, statsVars, capVars, viewVars>>
        \/ DlOpen(p) /\ UNCHANGED <<active, statsVars, capVars, viewVars>>
        \/ DlWrite(p) /\ UNCHANGED <<active, statsVars, capVars, viewVars>>
        \/ DlEof(p) /\ UNCHANGED <<active, statsVars, capVars, viewVars>>
        \/ DlExcept(p) /\ UNCHANGED <<active, statsVars, capVars, viewVars>>
        \/ GmLoad(p) /\ UNCHANGED <<active, statsVars, capVars, viewVars>>
        \/ GmAssign(p) /\ UNCHANGED <<active, statsVars, capVars, viewVars>>
        \/ GmReturn(p) /\ UNCHANGED <<active, statsVars, capVars, viewVars>>
        \/ GmDone(p) /\ UNCHANGED <<active, statsVars, capVars, viewVars>>

SpecProvSeq == InitProv /\ [][NextProvSeq]_vars

\* The whole request cycle: requests served by cameras_view one at a time,
\* each running capture_frame, get_model and the inference steps
Init == StatsInit /\ CapInit /\ ProvInit /\ ViewInit /\ active = {1}

Next ==
    \E p \in Procs :
        \/ ViewRequest(p) /\ UNCHANGED <<active, statsVars, capVars, provVars>>
        \/ ProbeWhich(p) /\ UNCHANGED <<active, statsVars, provVars>>
        \/ ProbeOpen(p) /\ UNCHANGED <<active, statsVars, provVars>>
        \/ ProbeRelease(p) /\ UNCHANGED <<active, statsVars, provVars>>
        \/ ViewBranch(p) /\ UNCHANGED <<active, statsVars, capVars, provVars>>
        \/ ViewCaptureCall(p) /\ UNCHANGED <<active, statsVars, provVars>>
        \/ RpRun(p) /\ UNCHANGED <<active, statsVars, provVars, viewVars>>
        \/ RpExists(p) /\ UNCHANGED <<active, statsVars, provVars, viewVars>>
        \/ RpRead(p) /\ UNCHANGED <<active, statsVars, provVars, viewVars>>
        \/ RpUnlink(p) /\ UNCHANGED <<active, statsVars, provVars, viewVars>>
        \/ RpFinally(p) /\ UNCHANGED <<active, statsVars, provVars, viewVars>>
        \/ FsWhich(p) /\ UNCHANGED <<active, statsVars, provVars, viewVars>>
        \/ FsRun(p) /\ UNCHANGED <<active, statsVars, provVars, viewVars>>
        \/ FsExists(p) /\ UNCHANGED <<active, statsVars, provVars, viewVars>>
        \/ FsRead(p) /\ UNCHANGED <<active, statsVars, provVars, viewVars>>
        \/ FsFinally(p) /\ UNCHANGED <<active, statsVars, provVars, viewVars>>
        \/ WebOpen(p) /\ UNCHANGED <<active, statsVars, provVars, viewVars>>
        \/ WebRead(p) /\ UNCHANGED <<active, statsVars, provVars, viewVars>>
        \/ WebRelease(p) /\ UNCHANGED <<active, statsVars, provVars, viewVars>>
        \/ ViewCaptureResult(p) /\ UNCHANGED <<active, statsVars, provVars>>
        \/ RiGetModelCall(p) /\ UNCHANGED <<active, statsVars, capVars>>
        \/ GmCheck(p) /\ UNCHANGED <<active, statsVars, capVars, viewVars>>
        \/ DlMkdir(p) /\ UNCHANGED <<active, statsVars, capVars, viewVars>>
        \/ DlExists(p) /\ UNCHANGED <<active, statsVars, capVars, viewVars>>
        \/ DlGet(p) /\ UNCHANGED <<active, statsVars, capVars, viewVars>>
        \/ DlOpen(p) /\ UNCHANGED <<active, statsVars, capVars, viewVars>>
        \/ DlWrite(p) /\ UNCHANGED <<active, statsVars, capVars, viewVars>>
        \/ DlEof(p) /\ UNCHANGED <<active, statsVars, capVars, viewVars>>
        \/ DlExcept(p) /\ UNCHANGED <<active, statsVars, capVars, viewVars>>
        \/ GmLoad(p) /\ UNCHANGED <<active, statsVars, capVars, viewVars>>
        \/ GmAssign(p) /\ UNCHANGED <<active, statsVars, capVars, viewVars>>
        \/ GmReturn(p) /\ UNCHANGED <<active, statsVars, capVars, viewVars>>
        \/ RiGetModelResult(p) /\ UNCHANGED <<active, statsVars, capVars>>
        \/ RiDecode(p) /\ UNCHANGED <<active, statsVars, capVars, provVars>>
        \/ RiPredict(p) /\ UNCHANGED <<active, statsVars, capVars, provVars>>
        \/ RiEncode(p) /\ UNCHANGED <<active, statsVars, capVars, provVars>>
        \/ ViewStore(p) /\ UNCHANGED <<active, statsVars, capVars, provVars>>
        \/ ViewDone(p) /\ UNCHANGED <<active, statsVars, capVars, provVars>>

Spec == Init /\ [][Next]_vars

(***************************************************************************)
(* Claims about capture_frame, checked under SpecCapture.                  *)
(***************************************************************************)
\* The priority order the capture backends are to be tried in
Priority == <<"rpicam", "fs1", "fs0", "web0", "web1">>

Rank(att) == CHOOSE i \in 1..Len(Priority) : Priority[i] = att

\* C1: capture_frame tries the backends strictly in the order rpicam-still,
\* fswebcam on /dev/video1 then /dev/video0, device 0 then device 1; an
\* attempt is made only after every earlier one of the call failed, the
\* image returned is the one the first successful attempt produced, and
\* nothing is attempted after it.
C1_PriorityOrderFirstSuccess ==
    \A p \in Procs :
        LET log == attempts[p] IN
        /\ \A i, j \in 1..Len(log) : i < j => Rank(log[i].att) < Rank(log[j].att)
        /\ \A i \in 1..Len(log) : i < Len(log) => log[i].res = "fail"
        /\ cpc[p] = "returned" =>
              /\ Len(log) > 0
              /\ log[Len(log)].res = "ok"
              /\ cfRet[p].kind = "return"
              /\ cfRet[p].data = Bytes("image", p, log[Len(log)].att)
        /\ cpc[p] = "raised" => \A i \in 1..Len(log) : log[i].res = "fail"

\* capture_frame returned the image of fswebcam on /dev/video0 after
\* rpicam-still and fswebcam on /dev/video1 had failed.
C1_Witness ==
    /\ cpc[1] = "returned"
    /\ Len(attempts[1]) = 3
    /\ attempts[1][1].att = "rpicam"
    /\ attempts[1][3].att = "fs0"
    /\ cfRet[1].data.att = "fs0"

\* C2: when every backend fails, the message of the error capture_frame
\* raises holds a failure reason for every backend and every device path
\* attempted in the call.
C2_MessageHoldsEveryReason ==
    \A p \in Procs :
        cpc[p] = "raised" =>
            \A i \in 1..Len(attempts[p]) :
                \E k \in 1..Len(cfRet[p].msg) :
                    cfRet[p].msg[k].att = attempts[p][i].att

\* C11: every backend that writes a temporary file removes it on every exit
\* path: once capture_frame has returned or raised, whatever the command
\* wrote and however the attempt ended, neither rpicam_capture.jpg nor
\* fswebcam_capture.jpg exists.
C11_TempFilesRemoved ==
    (\A p \in Procs : cpc[p] \in {"idle", "returned", "raised"}) =>
        \A n \in DOMAIN tmpFile : ~Exists(tmpFile, n)

\* capture_frame raised after fswebcam on /dev/video0 had written an empty
\* file that the call read.
C11_Witness ==
    /\ cpc[1] = "raised"
    /\ data[1] = Bytes("empty", 1, "fs0")
    /\ \A n \in DOMAIN tmpFile : ~Exists(tmpFile, n)

\* C12: the direct device adapter leaves no capture device open: when
\* capture_frame returns or raises, every device _capture_with_webcam opened
\* has been released, and a call never holds more than one device.
C12_NoDeviceLeftOpen ==
    \A p \in Procs :
        /\ Cardinality(held[p]) <= 1
        /\ cpc[p] \in {"returned", "raised"} => held[p] = {}

\* The backend a reason or an attempt belongs to
BackendOf(att) ==
    CASE att \in {"rpicam"} -> "rpicam"
      [] att \in {"fs1", "fs0", "fswebcam"} -> "fswebcam"
      [] att \in {"web0", "web1", "webcam"} -> "webcam"
      [] OTHER -> "-"

\* C13: when no backend succeeds, every backend is recorded as a failure:
\* the collected reasons hold one that identifies rpicam-still, one that
\* identifies fswebcam and one that identifies the direct devices, also
\* for a backend whose executable is missing.
C13_EveryBackendRecorded ==
    \A p \in Procs :
        cpc[p] = "raised" =>
            \A b \in {"rpicam", "fswebcam", "webcam"} :
                \E k \in 1..Len(cfRet[p].msg) : BackendOf(cfRet[p].msg[k].att) = b

\* The attempt can be made on this host: its executable is installed (the
\* direct devices need none)
Configured(att) ==
    CASE att = "rpicam" -> "rpicam-still" \in installed
      [] att \in {"fs1", "fs0"} -> "fswebcam" \in installed
      [] OTHER -> TRUE

\* C14: capture_frame is exhaustive but bounded: no backend or device path
\* is attempted twice in a call, none is attempted without its executable,
\* and when the call ends every configured path before the successful one
\* (every configured path, when the call raises) has been attempted.
C14_ExhaustiveButBounded ==
    \A p \in Procs :
        LET log == attempts[p]
            tried(att) == \E i \in 1..Len(log) : log[i].att = att
        IN  /\ \A i, j \in 1..Len(log) : i # j => log[i].att # log[j].att
            /\ \A i \in 1..Len(log) : Configured(log[i].att)
            /\ cpc[p] = "raised" =>
                  \A r \in 1..Len(Priority) :
                      Configured(Priority[r]) => tried(Priority[r])
            /\ cpc[p] = "returned" =>
                  \A r \in 1..Len(Priority) :
                      (Configured(Priority[r]) /\ r < Rank(log[Len(log)].att))
                          => tried(Priority[r])

(***************************************************************************)
(* Claims about get_model.  C3, C6 and C17 are about concurrent calls and  *)
(* are checked under SpecProv; C4 and C5 are about a call that follows     *)
(* another and are checked under SpecProvSeq.                              *)
(***************************************************************************)
\* C3: the handle is created at most once per process even when cycles call
\* get_model concurrently before a handle is cached: the download runs to
\* its end at most once, the model is loaded at most once, and every caller
\* obtains the same handle.
C3_HandleCreatedOnce ==
    /\ nWritten <= 1
    /\ nLoad <= 1
    /\ \A p \in Procs : mRet[p].kind = "return" => mRet[p].handle = firstRet

\* C4: after one get_model call has returned successfully, every later call
\* returns the same cached handle and makes no request and no storage
\* operation (no directory or file check, no download, no load).
C4_LaterCallsReadTheCache ==
    \A p \in Procs :
        lateCall[p] =>
            /\ callIO[p] = NoIO
            /\ mpc[p] \in {"check", "return", "returned"}
            /\ mpc[p] = "returned" =>
                  /\ mRet[p].kind = "return"
                  /\ mRet[p].handle = firstRet
                  /\ mRet[p].handle # 0

\* The third call of the run returned, after an earlier call had returned.
C4_Witness ==
    /\ nCalls = 3
    /\ mpc[2] = "returned"
    /\ lateCall[2]
    /\ nLoad = 1
    /\ nFetch = 1

\* C5: when the download fails (the request fails or answers an error
\* status, or the transfer is interrupted after any number of chunks),
\* get_model raises after a single request, the artifact file does not
\* exist afterwards, and no handle is cached, so that a later call
\* provisions again from the absent state.
C5_FailedDownloadLeavesNothing ==
    \A p \in Procs :
        (mpc[p] = "raised" /\ mRet[p].err = "download") =>
            /\ mRet[p].kind = "raise"
            /\ callIO[p].net = 1
            /\ ~file.exists
            /\ file.chunks = {}
            /\ model = 0
            /\ loaded[p] = 0

\* A download was interrupted after its first chunk was written, and the
\* call has raised.
C5_Witness ==
    /\ mpc[1] = "raised"
    /\ mRet[1].err = "download"
    /\ downloaded[1] = 1
    /\ nFetch = 2

\* The artifact is present: the file exists and a download of it has ended
\* with every chunk in place (or it was there when the process started).
Present == file.exists /\ file.complete

\* C6: the artifact never leaves 'present': once the file has been
\* completely written it is never deleted or truncated, and nothing is
\* fetched from the remote again, in any sequence of get_model calls,
\* concurrent first-time calls included.
C6_PresentIsStable ==
    [][Present => (Present' /\ nFetch' = nFetch)]_vars

\* C17: in every interleaving of concurrent first-time get_model calls, the
\* load step reads only a file whose download has completed: no caller
\* constructs the model from a file another caller is still writing.
C17_LoadReadsCompleteFile ==
    \A p \in Procs : loadSaw[p] \in {"-", "complete"}

(***************************************************************************)
(* Claims about the statistics reducer, checked under SpecStats.           *)
(***************************************************************************)
AbsDiff(a, b) == IF a >= b THEN a - b ELSE b - a

\* C7: for every list of detections the returned statistics satisfy
\* total_spaces = occupied + empty and 0 <= occupancy_rate <= 100, a
\* total_spaces of 0 gives an occupancy_rate of 0, and the empty list gives
\* all five fields equal to 0.
C7_StatsInvariant ==
    spc = "done" =>
        /\ stats.total_spaces = stats.occupied + stats.empty
        /\ stats.occupancy_rate >= 0
        /\ stats.occupancy_rate <= 100
        /\ (stats.total_spaces = 0 => stats.occupancy_rate = 0)
        /\ (sLen = 0 =>
                stats = [occupied |-> 0, empty |-> 0, total_spaces |-> 0,
                         occupancy_rate |-> 0, lots_detected |-> 0])

\* A call returned for a list holding occupied, empty and lot detections.
C7_Witness ==
    /\ spc = "done"
    /\ stats.occupied = 2
    /\ stats.empty = 1
    /\ stats.lots_detected = 1
    /\ stats.total_spaces = 3

\* C8: when total_spaces > 0, occupancy_rate is an integer nearest to
\* occupied * 100 / total_spaces, that is
\* 2 * |100 * occupied - occupancy_rate * total_spaces| <= total_spaces;
\* two empty and one occupied give 33.
C8_RateIsNearestInteger ==
    (spc = "done" /\ stats.total_spaces > 0) =>
        /\ 2 * AbsDiff(100 * stats.occupied,
                       stats.occupancy_rate * stats.total_spaces)
              <= stats.total_spaces
        /\ (stats.occupied = 1 /\ stats.empty = 2 => stats.occupancy_rate = 33)

\* A call returned for a list whose rate is a tie between two integers
\* (3 occupied of 8 spaces: 37.5).
C8_Witness ==
    /\ spc = "done"
    /\ stats.occupied = 3
    /\ stats.empty = 5
    /\ stats.occupancy_rate = 38

\* The keyword test of the claim, on a label as the detector names it.
HasKeyword(kw, label) == Contains(kw, StrLower(label))

\* C9: each detection is counted in at most one counter, by
\* case-insensitive substring match with priority empty, then occupied
\* ("occup"), then lot: a label containing "empty" counts only as empty, one
\* containing "occup" and not "empty" only as occupied, one containing only
\* "lot" only as lots_detected, and a label matching none changes no
\* counter; hence occupied + empty + lots_detected never exceeds the number
\* of detections consumed.
C9_ExclusiveClassification ==
    /\ [](counts.occupied + counts.empty + counts.lots <= sIdx /\ sIdx <= sLen)
    /\ [][sIdx' = sIdx + 1 =>
            LET label == NamesGet(Names, sLast')
                isEmpty == HasKeyword(KwEmpty, label)
                isOccup == ~isEmpty /\ HasKeyword(KwOccup, label)
                isLot == ~isEmpty /\ ~isOccup /\ HasKeyword(KwLot, label)
            IN  /\ counts'.empty = counts.empty + (IF isEmpty THEN 1 ELSE 0)
                /\ counts'.occupied = counts.occupied + (IF isOccup THEN 1 ELSE 0)
                /\ counts'.lots = counts.lots + (IF isLot THEN 1 ELSE 0)
                \* the labels of the input set, by name
                /\ (sLast' \in {0, 4, 6} => isEmpty)
                /\ (sLast' \in {1, 5} => isOccup)
                /\ (sLast' = 2 => isLot)
                /\ (sLast' \in {3, 7, 8} => ~isEmpty /\ ~isOccup /\ ~isLot)
         ]_statsVars

\* The loop has just consumed "occup/empty", which holds two keywords, after
\* an "Empty_Lot": both were counted as empty and nothing else.
C9_Witness ==
    /\ spc = "loop"
    /\ sIdx = 2
    /\ sLast = 6
    /\ counts = [occupied |-> 0, empty |-> 2, lots |-> 0]

(***************************************************************************)
(* Claims about cameras_view and the cache entry.                          *)
(***************************************************************************)
\* The step is the cache write of cycle p
StoresFor(p) ==
    /\ vpc[p] = "store"
    /\ vpc'[p] = "done"
    /\ vAnnot[p]
    /\ ~vError[p].set
    /\ vStats[p].set
    /\ vStats[p] = riStats[p]
    /\ vReq[p] \in {"capture", "upload"}
    /\ cache'.set
    /\ cache'.stats = vStats[p]
    /\ cache'.source = vReq[p]
    /\ cache'.source = vSource'[p]
    /\ cache'.updated_at = nReq

\* C10: a request cycle that fails at any step (capture, model provisioning,
\* decoding, detection, encoding, or a POST without input) ends with the
\* cache entry latest_occupancy_stats as it was when the cycle began and
\* with no statistics and no source bound in the view; the entry changes
\* only in the store step of a cycle whose run_inference returned, and then
\* it holds that cycle's statistics with the provenance of the path taken
\* ('capture' or 'upload').
C10_FailingCycleLeavesCache ==
    /\ [](\A p \in Procs :
            (vpc[p] = "done" /\ vError[p].set) =>
                /\ cache = cacheAtStart[p]
                /\ ~vStats[p].set
                /\ ~vAnnot[p]
                /\ vSource[p] = "-")
    /\ [][cache' # cache => \E p \in Procs : StoresFor(p)]_vars

\* A capture cycle failed in the encoder, after statistics were computed
\* inside run_inference, while an earlier upload cycle's entry is cached.
C10_Witness ==
    /\ vpc[1] = "done"
    /\ vReq[1] = "capture"
    /\ vError[1].set
    /\ vError[1].kind = "encode"
    /\ riStats[1].set
    /\ cache.set
    /\ cache.source = "upload"
    /\ cache = cacheAtStart[1]

\* C15: run_inference decodes its input before it obtains the model: a
\* cycle whose input bytes do not decode makes no provisioning step (no
\* directory creation or file check, no request, no model load), whether
\* or not a handle is cached.
C15_DecodeBeforeModel ==
    \A p \in Procs :
        vBytes[p].state = "garbage" =>
            /\ callIO[p] = NoIO
            /\ loaded[p] = 0
            /\ mpc[p] \in {"idle", "check", "return", "returned"}

\* The cycle is inside camera_available
InProbe(p) == vpc[p] \in {"probe_which", "probe_open", "probe_release"}

\* C16: camera_available is a non-destructive probe: its result is true
\* exactly when rpicam-still or fswebcam is found or device 0 or 1 can be
\* opened; when it returns, every device it opened has been released; and
\* none of its steps runs a capture command, reads a frame or creates a
\* file.
C16_ProbeIsNonDestructive ==
    /\ [](\A p \in Procs :
            vpc[p] = "branch" =>
                /\ camera_ready[p] = CameraAvailable(p)
                /\ held[p] = {})
    /\ [][\A p \in Procs :
            (InProbe(p) /\ vpc'[p] # vpc[p]) =>
                /\ tmpFile' = tmpFile
                /\ attempts' = attempts
                /\ proc' = proc
                /\ data' = data
                /\ cpc' = cpc]_vars

\* On a host without capture executables where only device 1 opens, the
\* probe has returned True and holds no device.
C16_Witness ==
    /\ vpc[1] = "branch"
    /\ camera_ready[1]
    /\ installed = {}
    /\ openable = {"web1"}
    /\ held[1] = {}

\* C19: the probe never hides a working camera: in a cycle whose
\* camera_available returned False, capture_frame (run on the same host
\* state) fails with the aggregated error.
C19_ProbeNeverHidesCamera ==
    \A p \in Procs :
        (vpc[p] = "capture" /\ cpc[p] \in {"returned", "raised"} /\ ~camera_ready[p]) =>
            /\ cpc[p] = "raised"
            /\ cfRet[p].kind = "raise"
            /\ Head(cfRet[p].msg) = Reason("capture_frame", "header")

\* The probe returned False and capture_frame has raised.
C19_Witness ==
    /\ vpc[1] = "capture"
    /\ cpc[1] = "raised"
    /\ ~camera_ready[1]
    /\ vReq[1] = "capture"

(***************************************************************************)
(* Claims about concurrent capture_frame calls, checked under              *)
(* SpecCaptureShared.                                                      *)
(***************************************************************************)
\* The cycle's command has run and the cycle has not yet read its output
AwaitsOutput(q) == cpc[q] \in {"rp_exists", "rp_read", "fs_exists", "fs_read"}

\* C18: two concurrent capture_frame calls do not interfere through the
\* fixed-name temporary files: a call that returns an image returns bytes
\* its own capture command wrote, and no call removes the file another
\* call's command has written and that call has not yet read.
C18_NoTempFileInterference ==
    /\ [](\A p \in Procs : cpc[p] = "returned" => cfRet[p].data.by = p)
    /\ [][\A n \in DOMAIN tmpFile :
            (Exists(tmpFile, n) /\ ~Exists(tmpFile', n)) =>
                LET q == tmpFile[n].by IN
                (cpc'[q] = cpc[q]) => ~AwaitsOutput(q)]_vars

====
